---- MODULE Spec2Model ----
(***************************************************************************)
(* The Interaction transcript unit of lib/shared/src/chat/transcript/      *)
(* interaction.ts: one human/assistant message pair, the used-context      *)
(* attributes, and the context promise that removeCodyIgnoredFiles()       *)
(* replaces by its filtered form on every read; and the context retrieval  *)
(* helpers of lib/shared/src/chat/prompts/vscode-context/helpers.ts: the   *)
(* directory scans, the workspace pattern search and the test-file         *)
(* context.                                                                *)
(***************************************************************************)
EXTENDS Integers, Sequences, FiniteSets, TLC

(* ------------------------------ bounds --------------------------------- *)

\* Longest context sequence the context promise resolves to in SpecFilter.
MaxLen == 4
\* Longest context sequence in the specifications that interleave operations.
MaxCtx == 2
\* Number of async calls (getFullContext, hasContext, toChatPromise, toJSON)
\* that may be suspended at the same time.
MaxCalls == 2
\* Longest directory listing handed to a directory scan.
MaxEntries == 3
\* Largest maxFiles argument of getCurrentDirFilteredContext.
MaxFragments == 2
\* Largest maxResults argument of findVSCodeFiles, and the longest list a
\* workspace search answers with.
MaxHits == 2
\* How long the clock runs after a findVSCodeFiles call, in half deadlines.
MaxTicks == 3

(* --------------------------- value domains ----------------------------- *)

\* `undefined` for the optional fields of a context file and of a message.
NoUri == "NoUri"
NoRepo == "NoRepo"
NoMetadata == "NoMetadata"

\* A fragment without `file` holds the reference 0.
NoFile == 0

\* ContextFile objects the assembler attaches to a fragment (uri?, repoName?,
\* fileName, source?).
FilePalette ==
    { [uri |-> "u1",  repoName |-> NoRepo, fileName |-> "a", source |-> "user"],
      [uri |-> NoUri, repoName |-> "r1",   fileName |-> "a", source |-> "embeddings"],
      [uri |-> NoUri, repoName |-> "r1",   fileName |-> "a", source |-> "user"],
      [uri |-> NoUri, repoName |-> NoRepo, fileName |-> "a", source |-> "embeddings"],
      [uri |-> "u1",  repoName |-> "r1",   fileName |-> "a", source |-> "embeddings"] }

\* What a fragment is built from: its speaker and its file (or none).
NoFileObj == [uri |-> NoUri, repoName |-> NoRepo, fileName |-> "", source |-> "none"]

FragmentPalette ==
    { [speaker |-> "human", hasFile |-> FALSE, f |-> NoFileObj] }
    \cup { [speaker |-> "human", hasFile |-> TRUE, f |-> f] : f \in FilePalette }
    \cup { [speaker |-> "assistant", hasFile |-> FALSE, f |-> NoFileObj] }
    \cup { [speaker |-> "assistant", hasFile |-> TRUE, f |-> f] :
             f \in { g \in FilePalette : g.source = "user" /\ g.uri # NoUri } }
    \cup { [speaker |-> "assistant", hasFile |-> TRUE, f |-> f] :
             f \in { g \in FilePalette : g.source = "embeddings" /\ g.uri = NoUri
                                          /\ g.repoName # NoRepo } }

\* The fragments of the specifications that interleave operations: a human
\* fragment of a file with a URI, the acknowledgement the assembler pairs with
\* it, and a human fragment without file.
CtxPalette ==
    { [speaker |-> "human", hasFile |-> TRUE,
       f |-> [uri |-> "u1", repoName |-> NoRepo, fileName |-> "a", source |-> "user"]],
      [speaker |-> "assistant", hasFile |-> FALSE, f |-> NoFileObj],
      [speaker |-> "human", hasFile |-> FALSE, f |-> NoFileObj] }

\* The rule sets of the ignore filter: ignored URIs and ignored
\* (codebase, relative path) pairs.
RuleSets == [uris : SUBSET {"u1"}, paths : SUBSET {<<"r1", "a">>}]

SeqsUpTo(S, n) == UNION { [1..k -> S] : k \in 0..n }

Metadatas == {"m1", "m2"}
UsedFiles == { <<>>, <<"fileA">> }
UsedPrecise == { <<>>, <<"p1">> }
AssistantInputs == [speaker : {"assistant"}, text : {"reply"}, metadata : {NoMetadata, "m2"}]

AsyncOps == {"getFullContext", "hasContext", "toChatPromise", "toJSON"}

(* ------------------------------- state --------------------------------- *)

VARIABLES
    rules,              \* the rule set isCodyIgnoredFile / isCodyIgnoredFilePath consult
    files,              \* heap of ContextFile objects: reference -> object
    raw,                \* the sequence the constructor's context promise resolves to
    ctxResolved,        \* whether the constructor's context promise has resolved
    fullContext,        \* this.fullContext: the promise currently in the slot
    humanMessage,       \* this.humanMessage
    assistantMessage,   \* this.assistantMessage
    metadata,           \* this.metadata
    usedContextFiles,   \* this.usedContextFiles
    usedPreciseContext, \* this.usedPreciseContext
    timestamp,          \* this.timestamp
    calls,              \* the suspended async calls
    ret,                \* what the last completed operation returned
    hist,               \* history of the run, read only by the properties
    scan,               \* the directory scan in progress (helpers.ts)
    search,             \* the findVSCodeFiles call in progress (helpers.ts)
    editorTest,         \* the getEditorTestContext call in progress (helpers.ts)
    glob,               \* a search pattern being built and matched (helpers.ts)
    dirList             \* the getFilesFromDir call in progress (helpers.ts)

vars == <<rules, files, raw, ctxResolved, fullContext, humanMessage, assistantMessage,
          metadata, usedContextFiles, usedPreciseContext, timestamp, calls, ret, hist,
          scan, search, editorTest, glob, dirList>>

\* The state of the helpers, and the state of the Interaction.
helperVars == <<scan, search, editorTest, glob, dirList>>
transcriptVars == <<rules, files, raw, ctxResolved, fullContext, humanMessage,
                    assistantMessage, metadata, usedContextFiles, usedPreciseContext,
                    timestamp, calls, ret, hist>>

interactionVars == <<humanMessage, assistantMessage, metadata, usedContextFiles,
                     usedPreciseContext, timestamp>>
envVars == <<rules, files, raw>>

(* --------------------------- the ignore filter ------------------------- *)

\* isCodyIgnoredFile(uri): the URI matches the loaded ignore rules.
isCodyIgnoredFile(uri) == uri \in rules.uris

\* isCodyIgnoredFilePath(codebase, relativePath): the codebase has ignore
\* rules and the relative path matches them.
isCodyIgnoredFilePath(repoName, fileName) == <<repoName, fileName>> \in rules.paths

\* JavaScript truthiness of the optional string fields.
Truthy(x) == x \notin {NoUri, NoRepo}

\* `message.speaker === 'human' && message.file`
SpeakerGuard(message) == message.speaker = "human" /\ message.file # NoFile

\* `uri && isCodyIgnoredFile(uri)`
UriBranch(file) == Truthy(file.uri) /\ isCodyIgnoredFile(file.uri)

\* Mutant of EmbeddingsBranch: the path check without the test of `source`.
EmbeddingsBranchAnySource(file) ==
    /\ Truthy(file.repoName)
    /\ isCodyIgnoredFilePath(file.repoName, file.fileName)

\* `source === 'embeddings'` and then `repoName && isCodyIgnoredFilePath(repoName, fileName)`
EmbeddingsBranch(file) ==
    /\ file.source = "embeddings"
    /\ Truthy(file.repoName)
    /\ isCodyIgnoredFilePath(file.repoName, file.fileName)

\* The body of the for loop decides `i++; continue` for contextMessages[i].
SkipsPair(message) ==
    /\ SpeakerGuard(message)
    /\ UriBranch(files[message.file]) \/ EmbeddingsBranch(files[message.file])

\* Mutant of SkipStride: the `i++` before `continue` is missing.
SkipStrideWithoutIncrement == 2 - 1

\* How far `i` advances in one iteration that takes `i++; continue`: the
\* statement's i++ and the loop's own i++.
SkipStride == 2

\* Mutant of RemoveLoop: an ignored human fragment is dropped, but the element
\* after it is pushed unexamined instead of being dropped.
RECURSIVE RemoveLoopKeepsNext(_, _, _)
RemoveLoopKeepsNext(contextMessages, i, newMessages) ==
    IF i > Len(contextMessages)
    THEN newMessages
    ELSE LET message == contextMessages[i]
         IN  IF SkipsPair(message)
             THEN RemoveLoopKeepsNext(contextMessages, i + 2,
                     IF i + 1 <= Len(contextMessages)
                     THEN Append(newMessages, contextMessages[i + 1])
                     ELSE newMessages)
             ELSE RemoveLoopKeepsNext(contextMessages, i + 1, Append(newMessages, message))

\* The for loop of removeCodyIgnoredFiles from index i on (1-based here),
\* with newMessages as accumulated so far.
RECURSIVE RemoveLoop(_, _, _)
RemoveLoop(contextMessages, i, newMessages) ==
    IF i > Len(contextMessages)
    THEN newMessages
    ELSE LET message == contextMessages[i]
         IN  IF SkipsPair(message)
             THEN RemoveLoop(contextMessages, i + SkipStride, newMessages)
             ELSE RemoveLoop(contextMessages, i + 1, Append(newMessages, message))

\* Mutant of removeCodyIgnoredFiles: the loop starts at the second element.
removeCodyIgnoredFilesFromSecond(contextMessages) == RemoveLoop(contextMessages, 2, <<>>)

\* removeCodyIgnoredFiles() after its await: the new array it builds.
removeCodyIgnoredFiles(contextMessages) == RemoveLoop(contextMessages, 1, <<>>)

\* `msgs.map(msg => ({ ...msg }))`: a new array of new fragment objects, each
\* with the fields of the original (the `file` reference included).
CopyMessages(msgs) ==
    [k \in 1..Len(msgs) |->
        [speaker |-> msgs[k].speaker, text |-> msgs[k].text, file |-> msgs[k].file]]

(* ------------------------------ promises ------------------------------- *)

\* The promise passed to the constructor, and Promise.resolve(v).
OrigPromise == [orig |-> TRUE, v |-> <<>>]
Resolved(v) == [orig |-> FALSE, v |-> v]

\* Mutant of IsSettled: an await that resumes without the promise having resolved.
IsSettledAlways(p) == TRUE

IsSettled(p) == IF p.orig THEN ctxResolved ELSE TRUE
ValueOf(p) == IF p.orig THEN raw ELSE p.v

(* ------------------------------- calls --------------------------------- *)

CallIds == 1..MaxCalls
\* A suspended call: the method, where it is suspended, the promise it awaits,
\* the list its filter pass built (msgs) and, for toJSON(), the assistant
\* message object it has evaluated (am) and whether that object is still
\* this.assistantMessage (amCurrent).
Idle == [op |-> "idle", pc |-> "idle", awaited |-> OrigPromise, msgs |-> <<>>,
         am |-> <<>>, amCurrent |-> FALSE, afterFilter |-> FALSE]
\* A return: the operation, the value it returned and, for the properties, the
\* value it awaited (arg; for setAssistantMessage its argument), whether the
\* constructor's promise had resolved when it returned (settled) and whether a
\* filtered list had been stored when it was called (afterFilter).
Return(op, val, arg, afterFilter) ==
    [op |-> op, val |-> val, arg |-> arg, settled |-> ctxResolved,
     afterFilter |-> afterFilter]
\* The return of a suspended call.
ReturnOf(call, val) == Return(call.op, val, ValueOf(call.awaited), call.afterFilter)
Void(op) == Return(op, <<>>, <<>>, FALSE)
NoRet == [op |-> "none", val |-> <<>>, arg |-> <<>>, settled |-> FALSE,
          afterFilter |-> FALSE]
FreeIds == { c \in CallIds : calls[c].op = "idle" }
NextFree == CHOOSE c \in FreeIds : \A d \in FreeIds : c <= d

(* -------------------------------- Init --------------------------------- *)

\* The Interaction after construction, for a context promise that will resolve
\* to `input` and the rule set rs.
ConstructedInteraction(input, rs) ==
    /\ rules = rs
    /\ files = [i \in { j \in 1..Len(input) : input[j].hasFile } |-> input[i].f]
    /\ raw = [i \in 1..Len(input) |->
                [speaker |-> input[i].speaker, text |-> i,
                 file |-> IF input[i].hasFile THEN i ELSE NoFile]]
    /\ ctxResolved = FALSE
    /\ fullContext = OrigPromise
    /\ humanMessage = [speaker |-> "human", text |-> "question", metadata |-> NoMetadata]
    /\ assistantMessage = [speaker |-> "assistant", text |-> "", metadata |-> NoMetadata]
    /\ metadata = NoMetadata
    /\ usedContextFiles = <<>>
    /\ usedPreciseContext = <<>>
    /\ timestamp = "t0"
    /\ calls = [c \in CallIds |-> Idle]
    /\ ret = NoRet
    /\ hist = [setUsed |-> FALSE, usedArgs |-> <<<<>>, <<>>>>,
               filtered |-> FALSE, first |-> <<>>,
               metaSet |-> FALSE, metaArg |-> NoMetadata]

\* A directory scan as called: the function, its arguments, and the initial
\* values of its locals. statLog / readLog are the files stat and readFile
\* were called on, statRes / readRes what the calls that completed answered.
ScanArgs(fn, filesInDir, currentFileName, maxFiles) ==
    [fn |-> fn, pc |-> "start", filesInDir |-> filesInDir,
     currentFileName |-> currentFileName, maxFiles |-> maxFiles,
     i |-> 1, contextMessages |-> <<>>,
     statLog |-> <<>>, statRes |-> <<>>, readLog |-> <<>>, readRes |-> <<>>,
     exit |-> "none"]

\* findVSCodeFiles as called: its arguments, the cancellation token and the
\* timer it creates, the time since the call, what findFiles answered
\* (answer), whether the token had been cancelled by then (late), and what the
\* function returned (result).
SearchArgs(globalPattern, excludePattern, maxResults) ==
    [pc |-> "start", globalPattern |-> globalPattern, excludePattern |-> excludePattern,
     maxResults |-> maxResults, excluded |-> "", elapsed |-> 0,
     timer |-> "none", cancelled |-> FALSE,
     answer |-> [kind |-> "none", files |-> <<>>], late |-> FALSE,
     result |-> [kind |-> "none", files |-> <<>>]]

\* getEditorTestContext as called: its arguments, the findVSCodeFiles calls
\* it made (searches), and the locals of the functions it calls.
EditorTestArgs(fileName, isUnitTestRequest) ==
    [pc |-> "start", fileName |-> fileName, isUnitTestRequest |-> isUnitTestRequest,
     searches |-> <<>>, foundFiles |-> <<>>, testFile |-> <<>>,
     currentTestFile |-> <<>>, testFilesMatches |-> <<>>,
     filteredTestFiles |-> <<>>, k |-> 1, contextMessages |-> <<>>,
     readLog |-> <<>>, caught |-> FALSE, result |-> <<>>]

\* createVSCodeTestSearchPattern as called, the pattern it returned, a
\* workspace-relative path offered to it, and whether the pattern matched.
GlobArgs(fsPath, allTestFiles, candidate) ==
    [pc |-> "start", fsPath |-> fsPath, allTestFiles |-> allTestFiles,
     candidate |-> candidate, pattern |-> <<>>, matches |-> FALSE]

\* getFilesFromDir as called: its argument, what readDirectory answered and
\* what the function returned.
DirListArgs(testFilesOnly) ==
    [pc |-> "start", testFilesOnly |-> testFilesOnly,
     answer |-> [ok |-> TRUE, entries |-> <<>>], result |-> <<>>]

\* No helper is running.
NoScan == [ScanArgs("none", <<>>, <<>>, 0) EXCEPT !.pc = "idle"]
NoSearch == [SearchArgs("", "", 0) EXCEPT !.pc = "idle"]
NoEditorTest == [EditorTestArgs(<<>>, FALSE) EXCEPT !.pc = "idle"]
NoGlob == [GlobArgs(<<>>, FALSE, <<>>) EXCEPT !.pc = "idle"]
NoDirList == [DirListArgs(FALSE) EXCEPT !.pc = "idle"]
HelpersIdle ==
    /\ scan = NoScan /\ search = NoSearch /\ editorTest = NoEditorTest
    /\ glob = NoGlob /\ dirList = NoDirList

\* The state after construction of an Interaction.
Constructed(input, rs) == ConstructedInteraction(input, rs) /\ HelpersIdle

\* All operations, on a short context.
Init ==
    \E input \in SeqsUpTo(CtxPalette, MaxCtx), rs \in [uris : SUBSET {"u1"}, paths : {{}}] :
        Constructed(input, rs)

\* Contexts of MaxCtx file-carrying human fragments (what completes, and
\* when, does not depend on the fragments).
InitFair ==
    \E input \in [1..MaxCtx -> { m \in CtxPalette : m.hasFile }],
       rs \in [uris : SUBSET {"u1"}, paths : {{}}] :
        Constructed(input, rs)

\* The filter on every context sequence up to MaxLen, under every rule set.
InitFilter ==
    \E input \in SeqsUpTo(FragmentPalette, MaxLen), rs \in RuleSets : Constructed(input, rs)

(* ------------------------------- actions ------------------------------- *)

\* The context promise handed to the constructor resolves (to raw).
ResolveContext ==
    /\ ~ctxResolved
    /\ ctxResolved' = TRUE
    /\ UNCHANGED <<helperVars, envVars, fullContext, interactionVars, calls, ret, hist>>

\* Mutant of toChat: the assistant message is rendered without the used context.
toChatAssistantBare ==
    << [speaker |-> humanMessage.speaker, text |-> humanMessage.text,
        metadata |-> humanMessage.metadata,
        contextFiles |-> usedContextFiles, preciseContext |-> usedPreciseContext],
       [speaker |-> assistantMessage.speaker, text |-> assistantMessage.text,
        metadata |-> assistantMessage.metadata,
        contextFiles |-> <<>>, preciseContext |-> <<>>] >>

\* toChat(): the two rendered messages.
toChat ==
    << [speaker |-> humanMessage.speaker, text |-> humanMessage.text,
        metadata |-> humanMessage.metadata,
        contextFiles |-> usedContextFiles, preciseContext |-> usedPreciseContext],
       [speaker |-> assistantMessage.speaker, text |-> assistantMessage.text,
        metadata |-> assistantMessage.metadata,
        contextFiles |-> usedContextFiles, preciseContext |-> usedPreciseContext] >>

\* Mutant of InteractionJSON: the record also carries the legacy `context` field.
InteractionJSONWithLegacy(call) ==
    [humanMessage |-> humanMessage,
     assistantMessage |-> call.am,
     fullContext |-> ValueOf(call.awaited),
     usedContextFiles |-> usedContextFiles,
     usedPreciseContext |-> usedPreciseContext,
     timestamp |-> timestamp,
     context |-> ValueOf(call.awaited)]

\* The object literal toJSON() returns: humanMessage and assistantMessage are
\* the objects evaluated before the await (this.humanMessage is never replaced,
\* so it is the object setMetadata() writes to), fullContext is the awaited
\* array, the rest is read after the await.
InteractionJSON(call) ==
    [humanMessage |-> humanMessage,
     assistantMessage |-> call.am,
     fullContext |-> ValueOf(call.awaited),
     usedContextFiles |-> usedContextFiles,
     usedPreciseContext |-> usedPreciseContext,
     timestamp |-> timestamp]

\* Mutant of HasMessages: the comparison is off by one.
HasMessagesOffByOne(contextMessages) == Len(contextMessages) > 1

\* `contextMessages.length > 0` of hasContext().
HasMessages(contextMessages) == Len(contextMessages) > 0

\* Mutant of StoredContext: the filtered list is returned but not stored; the
\* slot keeps the promise it held.
StoredContextNotReplaced(newMessages) == fullContext

\* The promise removeCodyIgnoredFiles() assigns to this.fullContext.
StoredContext(newMessages) == Resolved(newMessages)

\* A call of getFullContext(), hasContext(), toChatPromise() or toJSON() runs
\* up to its `await this.fullContext` and suspends on the promise that is in
\* the slot at that moment. toJSON() has evaluated this.humanMessage and
\* this.assistantMessage (references to the two objects) by then.
CallAsync(op) ==
    /\ FreeIds # {}
    /\ calls' = [calls EXCEPT ![NextFree] =
                    [op |-> op, pc |-> "awaitContext", awaited |-> fullContext,
                     msgs |-> <<>>,
                     am |-> IF op = "toJSON" THEN assistantMessage ELSE <<>>,
                     amCurrent |-> (op = "toJSON"),
                     afterFilter |-> hist.filtered]]
    /\ UNCHANGED <<helperVars, envVars, ctxResolved, fullContext, interactionVars, ret, hist>>

\* Mutant of AwaitedContext: the pass reads the constructor's sequence again.
AwaitedContextOriginal(call) == raw

\* `const contextMessages = await this.fullContext`: the value of the promise
\* that was in the slot when the call was made.
AwaitedContext(call) == ValueOf(call.awaited)

\* removeCodyIgnoredFiles() resumes after `await this.fullContext`: runs the
\* loop over the awaited value, stores Promise.resolve(newMessages) in the
\* slot and returns newMessages to getFullContext() / hasContext(), which is
\* suspended on that return.
ContinueRemove(c) ==
    /\ calls[c].op \in {"getFullContext", "hasContext"}
    /\ calls[c].pc = "awaitContext"
    /\ IsSettled(calls[c].awaited)
    /\ LET newMessages == removeCodyIgnoredFiles(AwaitedContext(calls[c]))
       IN  /\ fullContext' = StoredContext(newMessages)
           /\ calls' = [calls EXCEPT ![c].pc = "awaitRemove", ![c].msgs = newMessages]
           /\ hist' = IF hist.filtered THEN hist
                      ELSE [hist EXCEPT !.filtered = TRUE, !.first = newMessages]
    /\ UNCHANGED <<helperVars, envVars, ctxResolved, interactionVars, ret>>

\* getFullContext() resumes after `await this.removeCodyIgnoredFiles()` and
\* returns the copies.
ReturnFullContext(c) ==
    /\ calls[c].op = "getFullContext"
    /\ calls[c].pc = "awaitRemove"
    /\ ret' = ReturnOf(calls[c], CopyMessages(calls[c].msgs))
    /\ calls' = [calls EXCEPT ![c] = Idle]
    /\ UNCHANGED <<helperVars, envVars, ctxResolved, fullContext, interactionVars, hist>>

\* hasContext() resumes after `await this.removeCodyIgnoredFiles()`.
ReturnHasContext(c) ==
    /\ calls[c].op = "hasContext"
    /\ calls[c].pc = "awaitRemove"
    /\ ret' = ReturnOf(calls[c], HasMessages(calls[c].msgs))
    /\ calls' = [calls EXCEPT ![c] = Idle]
    /\ UNCHANGED <<helperVars, envVars, ctxResolved, fullContext, interactionVars, hist>>

\* toChatPromise() resumes after `await this.fullContext` and returns toChat().
ReturnChatPromise(c) ==
    /\ calls[c].op = "toChatPromise"
    /\ calls[c].pc = "awaitContext"
    /\ IsSettled(calls[c].awaited)
    /\ ret' = ReturnOf(calls[c], toChat)
    /\ calls' = [calls EXCEPT ![c] = Idle]
    /\ UNCHANGED <<helperVars, envVars, ctxResolved, fullContext, interactionVars, hist>>

\* toJSON() resumes after `await this.fullContext`: the awaited array is the
\* fullContext field, the remaining fields are read now.
ReturnJSON(c) ==
    /\ calls[c].op = "toJSON"
    /\ calls[c].pc = "awaitContext"
    /\ IsSettled(calls[c].awaited)
    /\ ret' = ReturnOf(calls[c], InteractionJSON(calls[c]))
    /\ calls' = [calls EXCEPT ![c] = Idle]
    /\ UNCHANGED <<helperVars, envVars, ctxResolved, fullContext, interactionVars, hist>>

\* Mutant of ToChat: rendering stamps the interaction with the time of the call.
ToChatStampsTime ==
    /\ ret' = Return("toChat", toChat, <<>>, hist.filtered)
    /\ timestamp' = "rendered"
    /\ UNCHANGED <<helperVars, envVars, ctxResolved, fullContext, humanMessage,
                   assistantMessage, metadata, usedContextFiles, usedPreciseContext,
                   calls, hist>>

\* toChat() called directly: returns without suspending.
ToChat ==
    /\ ret' = Return("toChat", toChat, <<>>, hist.filtered)
    /\ UNCHANGED <<helperVars, envVars, ctxResolved, fullContext, interactionVars, calls, hist>>

\* setUsedContext(usedContextFiles, usedPreciseContext)
SetUsedContext(f, p) ==
    /\ usedContextFiles' = f
    /\ usedPreciseContext' = p
    /\ hist' = [hist EXCEPT !.setUsed = TRUE, !.usedArgs = <<f, p>>]
    /\ ret' = Void("setUsedContext")
    /\ UNCHANGED <<helperVars, envVars, ctxResolved, fullContext, humanMessage, assistantMessage,
                   metadata, timestamp, calls>>

\* setMetadata(metadata): writes the metadata property of the two message
\* objects, which a suspended toJSON() may hold too.
SetMetadata(m) ==
    /\ metadata' = m
    /\ humanMessage' = [humanMessage EXCEPT !.metadata = m]
    /\ assistantMessage' = [assistantMessage EXCEPT !.metadata = m]
    /\ calls' = [c \in CallIds |->
                    IF calls[c].amCurrent
                    THEN [calls[c] EXCEPT !.am = [calls[c].am EXCEPT !.metadata = m]]
                    ELSE calls[c]]
    /\ hist' = [hist EXCEPT !.metaSet = TRUE, !.metaArg = m]
    /\ ret' = Void("setMetadata")
    /\ UNCHANGED <<helperVars, envVars, ctxResolved, fullContext, usedContextFiles,
                   usedPreciseContext, timestamp>>

\* Mutant of WithMetadata: the spread alone, the argument keeps its own metadata.
WithOwnMetadata(a) ==
    [speaker |-> a.speaker, text |-> a.text, metadata |-> a.metadata]

\* `{ ...assistantMessage, metadata: this.metadata }`
WithMetadata(a) ==
    [speaker |-> a.speaker, text |-> a.text, metadata |-> metadata]

\* setAssistantMessage(assistantMessage): this.assistantMessage becomes a new
\* object, a copy of the argument with this.metadata as its metadata.
SetAssistantMessage(a) ==
    /\ assistantMessage' = WithMetadata(a)
    /\ calls' = [c \in CallIds |-> [calls[c] EXCEPT !.amCurrent = FALSE]]
    /\ ret' = Return("setAssistantMessage", <<>>, a, FALSE)
    /\ UNCHANGED <<helperVars, envVars, ctxResolved, fullContext, humanMessage, metadata,
                   usedContextFiles, usedPreciseContext, timestamp, hist>>

\* A caller that awaits each async call before it makes the next one.
CallAwaited(op) == FreeIds = CallIds /\ CallAsync(op)

\* All operations; async calls are awaited one at a time, the synchronous
\* operations run at any moment (also while a call is suspended).
Next ==
    \/ ResolveContext
    \/ \E op \in AsyncOps : CallAwaited(op)
    \/ \E c \in CallIds : ContinueRemove(c)
    \/ \E c \in CallIds : ReturnFullContext(c)
    \/ \E c \in CallIds : ReturnHasContext(c)
    \/ \E c \in CallIds : ReturnChatPromise(c)
    \/ \E c \in CallIds : ReturnJSON(c)
    \/ ToChat
    \/ \E f \in UsedFiles, p \in UsedPrecise : SetUsedContext(f, p)
    \/ \E m \in Metadatas : SetMetadata(m)
    \/ \E a \in AssistantInputs : SetAssistantMessage(a)

Spec == Init /\ [][Next]_vars

\* getFullContext(), awaited one call at a time, on every context sequence.
NextFilter ==
    \/ ResolveContext
    \/ CallAwaited("getFullContext")
    \/ \E c \in CallIds : ContinueRemove(c)
    \/ \E c \in CallIds : ReturnFullContext(c)

SpecFilter == InitFilter /\ [][NextFilter]_vars

\* The operations that read the context, with up to MaxCalls of the async ones
\* suspended at the same time.
NextCtx ==
    \/ ResolveContext
    \/ \E op \in AsyncOps : CallAsync(op)
    \/ \E c \in CallIds : ContinueRemove(c)
    \/ \E c \in CallIds : ReturnFullContext(c)
    \/ \E c \in CallIds : ReturnHasContext(c)
    \/ \E c \in CallIds : ReturnChatPromise(c)
    \/ \E c \in CallIds : ReturnJSON(c)
    \/ ToChat

SpecCtx == Init /\ [][NextCtx]_vars

\* getFullContext() and hasContext() called only while the constructor's
\* promise is unresolved, up to MaxCalls of them suspended on it; they continue
\* in any order once it has resolved.
NextPending ==
    \/ ResolveContext
    \/ \E op \in {"getFullContext", "hasContext"} : ~ctxResolved /\ CallAsync(op)
    \/ \E c \in CallIds : ContinueRemove(c)
    \/ \E c \in CallIds : ReturnFullContext(c)
    \/ \E c \in CallIds : ReturnHasContext(c)

SpecPending == Init /\ [][NextPending]_vars

\* The ignore rules are reloaded: isCodyIgnoredFile / isCodyIgnoredFilePath
\* consult another rule set from now on.
ChangeRules(rs) ==
    /\ rs # rules
    /\ rules' = rs
    /\ UNCHANGED <<helperVars, files, raw, ctxResolved, fullContext, interactionVars,
                   calls, ret, hist>>

\* At most one call is suspended.
AtMostOneSuspended == \A c, d \in CallIds \ FreeIds : c = d

\* Reads of the context called once the constructor's promise has resolved,
\* up to two of them suspended at the same time, with reloads of the ignore
\* rules between any two steps.
NextRules ==
    \/ ResolveContext
    \/ \E rs \in [uris : SUBSET {"u1"}, paths : {{}}] : ChangeRules(rs)
    \/ \E op \in {"getFullContext", "hasContext", "toJSON"} :
          ctxResolved /\ AtMostOneSuspended /\ CallAsync(op)
    \/ \E c \in CallIds : ContinueRemove(c)
    \/ \E c \in CallIds : ReturnFullContext(c)
    \/ \E c \in CallIds : ReturnHasContext(c)
    \/ \E c \in CallIds : ReturnJSON(c)

SpecRules == Init /\ [][NextRules]_vars

\* What the caller of getFullContext() can do with the array it was given:
\* remove its first element,
CallerShiftsList ==
    /\ ret.op = "getFullContext"
    /\ ret.val # <<>>
    /\ ret' = [ret EXCEPT !.val = Tail(ret.val)]
    /\ UNCHANGED <<helperVars, envVars, ctxResolved, fullContext, interactionVars, calls, hist>>

\* assign a property of one of its fragments (here `speaker`),
CallerEditsFragment(k) ==
    /\ ret.op = "getFullContext"
    /\ k \in 1..Len(ret.val)
    /\ ret.val[k].speaker = "human"
    /\ ret' = [ret EXCEPT !.val[k].speaker = "assistant"]
    /\ UNCHANGED <<helperVars, envVars, ctxResolved, fullContext, interactionVars, calls, hist>>

\* or assign a property of the `file` object one of its fragments refers to
\* (here `uri`); the spread of getFullContext() copied the reference, the
\* object is the one the Interaction's own fragment refers to.
CallerEditsFile(k, uri) ==
    /\ ret.op = "getFullContext"
    /\ k \in 1..Len(ret.val)
    /\ ret.val[k].file # NoFile
    /\ files[ret.val[k].file].uri # uri
    /\ files' = [files EXCEPT ![ret.val[k].file].uri = uri]
    /\ UNCHANGED <<helperVars, rules, raw, ctxResolved, fullContext, interactionVars, calls, ret, hist>>

CallerMutates ==
    \/ CallerShiftsList
    \/ \E k \in 1..MaxCtx : CallerEditsFragment(k)
    \/ \E k \in 1..MaxCtx, uri \in {"u1", NoUri} : CallerEditsFile(k, uri)

\* The context readers, awaited one at a time, and a caller that writes to
\* what getFullContext() returned.
NextAlias ==
    \/ ResolveContext
    \/ \E op \in {"getFullContext", "toJSON"} : CallAwaited(op)
    \/ \E c \in CallIds : ContinueRemove(c)
    \/ \E c \in CallIds : ReturnFullContext(c)
    \/ \E c \in CallIds : ReturnJSON(c)
    \/ CallerShiftsList
    \/ \E k \in 1..MaxCtx : CallerEditsFragment(k)
    \/ \E k \in 1..MaxCtx, uri \in {"u1", NoUri} : CallerEditsFile(k, uri)

SpecAlias == Init /\ [][NextAlias]_vars

\* The job queue runs every continuation whose awaited promise has settled.
\* Nothing obliges the constructor's promise to resolve or a caller to call.
Continuations ==
    \A c \in CallIds :
        /\ WF_vars(ContinueRemove(c))
        /\ WF_vars(ReturnFullContext(c))
        /\ WF_vars(ReturnHasContext(c))
        /\ WF_vars(ReturnChatPromise(c))
        /\ WF_vars(ReturnJSON(c))

FairSpec == InitFair /\ [][NextCtx]_vars /\ Continuations

(* ----------------- helpers.ts: strings, files, fragments ---------------- *)

\* File names and paths are sequences of characters.
Foo_ts == <<"f", "o", "o", ".", "t", "s">>
Foo_test_ts == <<"f", "o", "o", ".", "t", "e", "s", "t", ".", "t", "s">>
Test_foo == <<"t", "e", "s", "t", "_", "f", "o", "o">>
Test_foo_ts == <<"t", "e", "s", "t", "_", "f", "o", "o", ".", "t", "s">>
Bar_ts == <<"b", "a", "r", ".", "t", "s">>
FileNames == {Foo_ts, Foo_test_ts, Test_foo, Test_foo_ts, Bar_ts}

\* String.prototype.startsWith / endsWith
StartsWith(str, prefix) ==
    Len(prefix) <= Len(str) /\ SubSeq(str, 1, Len(prefix)) = prefix
EndsWith(str, suffix) ==
    Len(suffix) <= Len(str) /\ SubSeq(str, Len(str) - Len(suffix) + 1, Len(str)) = suffix

\* `str.split(sep).pop()`: what follows the last separator (all of str if
\* there is none).
SplitPop(str, sep) ==
    LET at == { k \in 1..Len(str) : str[k] = sep }
    IN  IF at = {} THEN str
        ELSE SubSeq(str, (CHOOSE k \in at : \A j \in at : j <= k) + 1, Len(str))

\* `str.split(sep).shift()`: what precedes the first separator.
SplitShift(str, sep) ==
    LET at == { k \in 1..Len(str) : str[k] = sep }
    IN  IF at = {} THEN str
        ELSE SubSeq(str, 1, (CHOOSE k \in at : \A j \in at : k <= j) - 1)

\* `currentFileName.split('/').pop()?.split('.').shift() || ''`
fileNameWithoutExt(currentFileName) == SplitShift(SplitPop(currentFileName, "/"), ".")

\* The workspace folder, the scanned directory in it, Uri.joinPath(...).fsPath
\* and workspace.asRelativePath.
WorkspaceRoot == <<"/", "w", "/">>
DirUri == WorkspaceRoot \o <<"d">>
joinPath(dirUri, name) == dirUri \o <<"/">> \o name
createVSCodeRelativePath(filePath) ==
    IF StartsWith(filePath, WorkspaceRoot)
    THEN SubSeq(filePath, Len(WorkspaceRoot) + 1, Len(filePath))
    ELSE filePath

\* The 1MB ceiling of the size check.
MaxFileSize == 1000000
Sizes == {0, 1, MaxFileSize, MaxFileSize + 1}

\* What workspace.fs.stat and workspace.fs.readFile answer: a rejection, or a
\* size resp. bytes.
StatOutcomes == { [ok |-> FALSE, size |-> 0] } \cup { [ok |-> TRUE, size |-> n] : n \in Sizes }
ReadOutcomes == { [ok |-> FALSE, text |-> ""], [ok |-> TRUE, text |-> "code"] }

\* Mutant of SizeSkips: a file of exactly the ceiling is skipped too.
SizeSkipsAtCeiling(size) == size >= MaxFileSize \/ size = 0

\* `fileSize.size > 1000000 || !fileSize.size`
SizeSkips(size) == size > MaxFileSize \/ size = 0

\* decodeVSCodeTextDoc(fileUri) after its await: the decoded text, or '' from
\* the catch when readFile rejected (TextDecoder.decode does not throw).
decodeVSCodeTextDoc(outcome) == IF outcome.ok THEN outcome.text ELSE ""

\* truncateText(text, MAX_CURRENT_FILE_TOKENS), for texts within the budget.
truncateText(text) == text

\* populateContextTemplateFromText(templateText, content, fileName)
populateContextTemplateFromText(templateText, content, fileName) ==
    [template |-> templateText, content |-> content, fileName |-> fileName]

\* getContextMessageWithResponse(text, file): the human fragment with the
\* file and the assistant acknowledgement paired with it.
getContextMessageWithResponse(text, file) ==
    << [speaker |-> "human", text |-> text, file |-> file],
       [speaker |-> "assistant", text |-> "Ok."] >>

\* The fragment pair a directory scan builds from the decoded text of a file.
DirContextMessage(decoded, fileName) ==
    getContextMessageWithResponse(
        populateContextTemplateFromText("Codebase context from file path {fileName}: ",
                                        truncateText(decoded), fileName),
        [fileName |-> fileName])

\* Mutant of Push: the pair is put in front.
PushFront(contextMessages, contextMessage) == contextMessage \o contextMessages

\* `contextMessages.push(...contextMessage)`
Push(contextMessages, contextMessage) == contextMessages \o contextMessage

(* ---------------------- helpers.ts: directory scans --------------------- *)

\* The head of the for loop for entry i: the listing is exhausted and the
\* function returns contextMessages, or it calls stat on the entry and suspends.
ForEntry(sc, i) ==
    IF i > Len(sc.filesInDir)
    THEN [sc EXCEPT !.pc = "returned", !.i = i, !.exit = "end"]
    ELSE [sc EXCEPT !.pc = "stat", !.i = i,
                    !.statLog = Append(@, sc.filesInDir[i][1])]

\* Mutant of EarlyExit: only the prefix is tested.
EarlyExitPrefixOnly(name, base) == StartsWith(name, base)

\* `file[0].startsWith(fileNameWithoutExt) || file[0].endsWith(fileNameWithoutExt)`
EarlyExit(name, base) == StartsWith(name, base) \/ EndsWith(name, base)

\* `contextMessages.length >= maxFiles * 2`
ReachedMax(contextMessages, maxFiles) == Len(contextMessages) >= maxFiles * 2

\* getCurrentDirFilteredContext(dirUri, filesInDir, currentFileName, maxFiles)
\* is called: runs to the stat of the first entry.
CurrentDirCall ==
    /\ scan.fn = "getCurrentDirFilteredContext"
    /\ scan.pc = "start"
    /\ scan' = ForEntry(scan, 1)
    /\ UNCHANGED <<transcriptVars, search, editorTest, glob, dirList>>

\* ... resumes after `await vscode.workspace.fs.stat(fileUri)`: a rejection
\* leaves the function (the await is in no try block); otherwise the size
\* check, the current-file check, and the readFile of decodeVSCodeTextDoc.
CurrentDirAfterStat(outcome) ==
    /\ scan.fn = "getCurrentDirFilteredContext"
    /\ scan.pc = "stat"
    /\ LET file == scan.filesInDir[scan.i]
           sc == [scan EXCEPT !.statRes = Append(@, outcome)]
       IN  scan' = IF ~outcome.ok THEN [sc EXCEPT !.pc = "threw"]
                   ELSE IF SizeSkips(outcome.size) THEN ForEntry(sc, scan.i + 1)
                   ELSE IF file[1] = scan.currentFileName THEN ForEntry(sc, scan.i + 1)
                   ELSE [sc EXCEPT !.pc = "read", !.readLog = Append(@, file[1])]
    /\ UNCHANGED <<transcriptVars, search, editorTest, glob, dirList>>

\* ... resumes after `await decodeVSCodeTextDoc(fileUri)`: pushes the pair,
\* then the early-exit check, the maxFiles check, and the next entry.
CurrentDirAfterRead(outcome) ==
    /\ scan.fn = "getCurrentDirFilteredContext"
    /\ scan.pc = "read"
    /\ LET file == scan.filesInDir[scan.i]
           fileName == createVSCodeRelativePath(joinPath(DirUri, file[1]))
           contextMessage == DirContextMessage(decodeVSCodeTextDoc(outcome), fileName)
           pushed == Push(scan.contextMessages, contextMessage)
           sc == [scan EXCEPT !.readRes = Append(@, outcome.ok),
                              !.contextMessages = pushed]
       IN  scan' = IF EarlyExit(file[1], fileNameWithoutExt(scan.currentFileName))
                   THEN [sc EXCEPT !.pc = "returned", !.exit = "early"]
                   ELSE IF ReachedMax(pushed, scan.maxFiles)
                   THEN [sc EXCEPT !.pc = "returned", !.exit = "max"]
                   ELSE ForEntry(sc, scan.i + 1)
    /\ UNCHANGED <<transcriptVars, search, editorTest, glob, dirList>>

\* getDirContextMessages(dirUri, filesInDir) is called.
DirCall ==
    /\ scan.fn = "getDirContextMessages"
    /\ scan.pc = "start"
    /\ scan' = ForEntry(scan, 1)
    /\ UNCHANGED <<transcriptVars, search, editorTest, glob, dirList>>

\* ... resumes after `await vscode.workspace.fs.stat(fileUri)`.
DirAfterStat(outcome) ==
    /\ scan.fn = "getDirContextMessages"
    /\ scan.pc = "stat"
    /\ LET file == scan.filesInDir[scan.i]
           sc == [scan EXCEPT !.statRes = Append(@, outcome)]
       IN  scan' = IF ~outcome.ok THEN [sc EXCEPT !.pc = "threw"]
                   ELSE IF SizeSkips(outcome.size) THEN ForEntry(sc, scan.i + 1)
                   ELSE [sc EXCEPT !.pc = "read", !.readLog = Append(@, file[1])]
    /\ UNCHANGED <<transcriptVars, search, editorTest, glob, dirList>>

\* ... resumes after `await decodeVSCodeTextDoc(fileUri)`.
DirAfterRead(outcome) ==
    /\ scan.fn = "getDirContextMessages"
    /\ scan.pc = "read"
    /\ LET file == scan.filesInDir[scan.i]
           fileName == createVSCodeRelativePath(joinPath(DirUri, file[1]))
           contextMessage == DirContextMessage(decodeVSCodeTextDoc(outcome), fileName)
           sc == [scan EXCEPT !.readRes = Append(@, outcome.ok),
                              !.contextMessages = Push(@, contextMessage)]
       IN  scan' = ForEntry(sc, scan.i + 1)
    /\ UNCHANGED <<transcriptVars, search, editorTest, glob, dirList>>

\* The listings: up to MaxEntries entries [name, type] with distinct names,
\* all of them files.
Listings ==
    { l \in SeqsUpTo(FileNames \X {"File"}, MaxEntries) :
        \A j, k \in 1..Len(l) : j # k => l[j] # l[k] }

NoRules == [uris |-> {}, paths |-> {}]

\* The current file as callers name it: by its name, or by its path relative
\* to the workspace folder.
CurrentFileNames == { Foo_ts, createVSCodeRelativePath(joinPath(DirUri, Foo_ts)) }

\* A directory scan about to be called: either function, on every listing;
\* the current file is foo.ts.
InitDir ==
    /\ ConstructedInteraction(<<>>, NoRules)
    /\ search = NoSearch /\ editorTest = NoEditorTest
    /\ glob = NoGlob /\ dirList = NoDirList
    /\ \E l \in Listings :
         \/ \E n \in 0..MaxFragments, cur \in CurrentFileNames :
              scan = ScanArgs("getCurrentDirFilteredContext", l, cur, n)
         \/ scan = ScanArgs("getDirContextMessages", l, <<>>, 0)

NextDir ==
    \/ CurrentDirCall
    \/ \E o \in StatOutcomes : CurrentDirAfterStat(o)
    \/ \E o \in ReadOutcomes : CurrentDirAfterRead(o)
    \/ DirCall
    \/ \E o \in StatOutcomes : DirAfterStat(o)
    \/ \E o \in ReadOutcomes : DirAfterRead(o)

SpecDir == InitDir /\ [][NextDir]_vars

(* ----------------------- helpers.ts: findVSCodeFiles -------------------- *)

\* Files of the workspace, by path.
Contest_ts == <<"c", "o", "n", "t", "e", "s", "t", ".", "t", "s">>
Bar_test_ts == <<"b", "a", "r", "_", "t", "e", "s", "t", ".", "t", "s">>
FsPath(name) == joinPath(DirUri, name)
WorkspaceFiles == { FsPath(Foo_test_ts), FsPath(Bar_test_ts), FsPath(Contest_ts) }

\* Lists of distinct workspace files, up to n of them.
FileLists(n) ==
    { l \in SeqsUpTo(WorkspaceFiles, n) : \A j, k \in 1..Len(l) : j # k => l[j] # l[k] }

\* `excludePattern || '**/{.*,node_modules,snap*}/**'` ("" is no argument).
Excluded(excludePattern) ==
    IF excludePattern = "" THEN "**/{.*,node_modules,snap*}/**" ELSE excludePattern

\* Mutant of CancelDelay: the timer is set to a later time.
CancelDelayLonger == 20000 + 10000

\* The delay of the setTimeout that cancels the token, in ms.
CancelDelay == 20000

\* The clock advances in steps of half the delay.
TickMs == CancelDelay \div 2

\* What vscode.workspace.findFiles can answer: it rejects, it resolves to
\* nothing, or it resolves to an array of up to maxResults URIs. Nothing in
\* findVSCodeFiles restricts the answer once the token is cancelled.
FindFilesAnswers(maxResults) ==
    { [kind |-> "rejected", files |-> <<>>], [kind |-> "undefined", files |-> <<>>] }
    \cup { [kind |-> "array", files |-> l] : l \in FileLists(maxResults) }

\* `files || []`
OrEmpty(answer) ==
    IF answer.kind = "array" THEN answer ELSE [kind |-> "array", files |-> <<>>]

\* findVSCodeFiles(globalPattern, excludePattern, maxResults) is called: it
\* creates the token source, sets the timer, calls findFiles and suspends.
FindCall ==
    /\ search.pc = "start"
    /\ search' = [search EXCEPT !.pc = "findFiles",
                                !.excluded = Excluded(search.excludePattern),
                                !.timer = "armed"]
    /\ UNCHANGED <<transcriptVars, scan, editorTest, glob, dirList>>

\* Time passes. A timer that is due runs before more time passes (the
\* function is suspended or has returned, nothing else occupies the thread).
Tick ==
    /\ search.pc \in {"findFiles", "returned"}
    /\ search.elapsed < MaxTicks * TickMs
    /\ ~(search.timer = "armed" /\ search.elapsed >= CancelDelay)
    /\ search' = [search EXCEPT !.elapsed = @ + TickMs]
    /\ UNCHANGED <<transcriptVars, scan, editorTest, glob, dirList>>

\* The timer callback: `token.cancel()`. The timer is never cleared, it also
\* runs after findVSCodeFiles has returned.
TimerFires ==
    /\ search.timer = "armed"
    /\ search.elapsed >= CancelDelay
    /\ search' = [search EXCEPT !.timer = "fired", !.cancelled = TRUE]
    /\ UNCHANGED <<transcriptVars, scan, editorTest, glob, dirList>>

\* findVSCodeFiles resumes after `await vscode.workspace.findFiles(...)`: a
\* rejection goes to the catch, which returns []; otherwise `files || []`.
FindFilesSettles(answer) ==
    /\ search.pc = "findFiles"
    /\ search' = [search EXCEPT
                    !.pc = "returned",
                    !.answer = answer,
                    !.late = search.cancelled,
                    !.result = IF answer.kind = "rejected"
                               THEN [kind |-> "array", files |-> <<>>]
                               ELSE OrEmpty(answer)]
    /\ UNCHANGED <<transcriptVars, scan, editorTest, glob, dirList>>

\* A findVSCodeFiles call about to be made.
InitSearch ==
    /\ ConstructedInteraction(<<>>, NoRules)
    /\ scan = NoScan /\ editorTest = NoEditorTest
    /\ glob = NoGlob /\ dirList = NoDirList
    /\ \E g \in {"**/*test*.ts", "**/*{test_foo,foo_test,test.foo,foo.test,fooTest}.ts"},
          e \in {"", "**/*{e2e,integration,node_modules}*/**"},
          n \in 1..MaxHits :
         search = SearchArgs(g, e, n)

NextSearch ==
    \/ FindCall
    \/ Tick
    \/ TimerFires
    \/ \E answer \in FindFilesAnswers(search.maxResults) : FindFilesSettles(answer)

SpecSearch == InitSearch /\ [][NextSearch]_vars

(* --------------------- helpers.ts: getEditorTestContext ----------------- *)

\* path.extname: from the last '.' of the last path segment on, '' if it has
\* none or only a leading one.
extname(fsPath) ==
    LET base == SplitPop(fsPath, "/")
        at == { k \in 2..Len(base) : base[k] = "." }
    IN  IF at = {} THEN <<>>
        ELSE SubSeq(base, CHOOSE k \in at : \A j \in at : j <= k, Len(base))

\* path.basename(fsPath, ext): the last path segment, without ext at its end.
basename(fsPath, ext) ==
    LET base == SplitPop(fsPath, "/")
    IN  IF ext # <<>> /\ EndsWith(base, ext) /\ base # ext
        THEN SubSeq(base, 1, Len(base) - Len(ext))
        ELSE base

\* isValidTestFileName(fsPath): the name without extension follows one of the
\* test-file conventions test_<name>, test.<name>, <name>_test, <name>.test,
\* <name>Test.
isValidTestFileName(fsPath) ==
    LET name == basename(fsPath, extname(fsPath))
    IN  \/ StartsWith(name, <<"t", "e", "s", "t", "_">>)
        \/ StartsWith(name, <<"t", "e", "s", "t", ".">>)
        \/ EndsWith(name, <<"_", "t", "e", "s", "t">>)
        \/ EndsWith(name, <<".", "t", "e", "s", "t">>)
        \/ EndsWith(name, <<"T", "e", "s", "t">>)

\* The word the patterns are built around.
TestWord == <<"t", "e", "s", "t">>

\* The five alternatives in the braces of currentTestFilePattern, in order:
\* test_${fileName}, ${fileName}_test, test.${fileName}, ${fileName}.test,
\* ${fileName}Test.
TestAlternatives(fileName) ==
    << TestWord \o <<"_">> \o fileName, fileName \o <<"_">> \o TestWord,
       TestWord \o <<".">> \o fileName, fileName \o <<".">> \o TestWord,
       fileName \o <<"T", "e", "s", "t">> >>

\* Array.prototype.join(','), as the template literal writes the alternatives.
RECURSIVE JoinComma(_)
JoinComma(parts) ==
    IF Len(parts) = 0 THEN <<>>
    ELSE IF Len(parts) = 1 THEN parts[1]
    ELSE parts[1] \o <<",">> \o JoinComma(Tail(parts))

\* createVSCodeTestSearchPattern(fsPath, allTestFiles): the text of the
\* pattern. fileName and fileExtension are interpolated as they are.
createVSCodeTestSearchPattern(fsPath, allTestFiles) ==
    LET fileExtension == extname(fsPath)
        fileName == basename(fsPath, fileExtension)
        root == <<"*", "*">>
        defaultTestFilePattern == <<"/", "*">> \o TestWord \o <<"*">> \o fileExtension
        currentTestFilePattern ==
            <<"/", "*", "{">> \o JoinComma(TestAlternatives(fileName)) \o <<"}">>
                \o fileExtension
    IN  IF allTestFiles THEN root \o defaultTestFilePattern
        ELSE root \o currentTestFilePattern

\* The first position from `from` on where str has the character, 0 if none.
IndexOf(str, ch, from) ==
    LET at == { k \in from..Len(str) : str[k] = ch }
    IN  IF at = {} THEN 0 ELSE CHOOSE k \in at : \A j \in at : k <= j

\* `str.split(sep)`: the pieces between the separators, in order.
RECURSIVE SplitAll(_, _)
SplitAll(str, sep) ==
    LET k == IndexOf(str, sep, 1)
    IN  IF k = 0 THEN << str >>
        ELSE << SubSeq(str, 1, k - 1) >> \o SplitAll(SubSeq(str, k + 1, Len(str)), sep)

\* How vscode.workspace.findFiles reads the braces of a glob pattern: the
\* pattern stands for each of the patterns with one of the comma-separated
\* alternatives in place of the group.
RECURSIVE BraceExpand(_)
BraceExpand(pattern) ==
    LET open == IndexOf(pattern, "{", 1)
        close == IF open = 0 THEN 0 ELSE IndexOf(pattern, "}", open + 1)
    IN  IF open = 0 \/ close = 0 THEN { pattern }
        ELSE LET alts == SplitAll(SubSeq(pattern, open + 1, close - 1), ",")
             IN  UNION { BraceExpand(SubSeq(pattern, 1, open - 1) \o alts[k]
                                         \o SubSeq(pattern, close + 1, Len(pattern)))
                         : k \in 1..Len(alts) }

\* How findFiles matches one path segment against a pattern without braces:
\* '*' is any run of characters, '?' is one character, '[...]' is one of the
\* characters listed, any other character is itself.
RECURSIVE SegmentMatches(_, _)
SegmentMatches(pattern, name) ==
    IF pattern = <<>> THEN name = <<>>
    ELSE IF Head(pattern) = "*"
    THEN \/ SegmentMatches(Tail(pattern), name)
         \/ name # <<>> /\ SegmentMatches(pattern, Tail(name))
    ELSE IF Head(pattern) = "?"
    THEN name # <<>> /\ SegmentMatches(Tail(pattern), Tail(name))
    ELSE IF Head(pattern) = "[" /\ IndexOf(pattern, "]", 2) # 0
    THEN LET close == IndexOf(pattern, "]", 2)
         IN  /\ name # <<>>
             /\ Head(name) \in { pattern[k] : k \in 2..(close - 1) }
             /\ SegmentMatches(SubSeq(pattern, close + 1, Len(pattern)), Tail(name))
    ELSE name # <<>> /\ Head(name) = Head(pattern)
                     /\ SegmentMatches(Tail(pattern), Tail(name))

\* Whether findFiles reports the file at a workspace-relative path for a
\* pattern '**/<segment pattern>': the file may lie at any depth and its name
\* is matched against the segment pattern.
GlobMatches(pattern, path) ==
    /\ StartsWith(pattern, <<"*", "*", "/">>)
    /\ \E q \in BraceExpand(SubSeq(pattern, 4, Len(pattern))) :
          SegmentMatches(q, SplitPop(path, "/"))

\* A source file whose name has brackets in it, as route files have.
Brackets_ts == <<"[", "i", "]", ".", "t", "s">>

\* The paths createVSCodeTestSearchPattern is called with: a bare file name
\* and absolute paths.
PatternInputs == { Bar_ts, FsPath(Bar_ts), FsPath(Brackets_ts) }

\* Names of files of the workspace: for bar.ts and [i].ts the five kinds of
\* test-file name, and names that differ from them by a prefix, by the
\* extension, or by having no "test" or only part of the base name in them.
CandidateNames ==
    LET ts == <<".", "t", "s">>
        named(n) == { TestAlternatives(n)[k] \o ts : k \in 1..5 }
    IN  named(<<"b", "a", "r">>) \cup named(<<"[", "i", "]">>)
        \cup { <<"a">> \o Bar_test_ts, <<"i", ".", "t", "e", "s", "t">> \o ts,
               <<"b", "a", "r", "_", "t", "e", "s", "t", ".", "j", "s">>,
               Bar_ts, Contest_ts, TestWord \o ts }

\* The files at the workspace root and one and two directories down.
Candidates ==
    CandidateNames \cup { <<"d", "/">> \o n : n \in CandidateNames }
                   \cup { <<"d", "/", "e", "/">> \o n : n \in CandidateNames }

\* createVSCodeTestSearchPattern(fsPath, allTestFiles) is called and returns.
PatternCall ==
    /\ glob.pc = "start"
    /\ glob' = [glob EXCEPT
                  !.pc = "built",
                  !.pattern = createVSCodeTestSearchPattern(glob.fsPath, glob.allTestFiles)]
    /\ UNCHANGED <<transcriptVars, scan, search, editorTest, dirList>>

\* The pattern is handed to vscode.workspace.findFiles, which holds it
\* against a file of the workspace.
PatternMatch ==
    /\ glob.pc = "built"
    /\ glob' = [glob EXCEPT !.pc = "matched",
                            !.matches = GlobMatches(glob.pattern, glob.candidate)]
    /\ UNCHANGED <<transcriptVars, scan, search, editorTest, dirList>>

\* A pattern about to be built for a path, and a file to hold it against.
InitPattern ==
    /\ ConstructedInteraction(<<>>, NoRules)
    /\ scan = NoScan /\ search = NoSearch /\ editorTest = NoEditorTest
    /\ dirList = NoDirList
    /\ \E f \in PatternInputs, a \in BOOLEAN, c \in Candidates : glob = GlobArgs(f, a, c)

NextPattern ==
    \/ PatternCall
    \/ PatternMatch

SpecPattern == InitPattern /\ [][NextPattern]_vars

\* `isUnitTest ? '**/*{e2e,integration,node_modules}*/**' : undefined`
ExcludePattern(isUnitTest) ==
    IF isUnitTest THEN "**/*{e2e,integration,node_modules}*/**" ELSE ""

\* The maxResults both searches pass to findVSCodeFiles.
TestFilesMax == 5

\* populateCodeContextTemplate(code, fileName)
populateCodeContextTemplate(code, fileName) ==
    [template |-> "code", content |-> code, fileName |-> fileName]

\* createFileContextResponseMessage(context, filePath)
createFileContextResponseMessage(context, filePath) ==
    LET fileName == createVSCodeRelativePath(filePath)
    IN  getContextMessageWithResponse(
            populateCodeContextTemplate(truncateText(context), fileName),
            [fileName |-> fileName])

\* `foundFiles.find(file => isValidTestFileName(file.fsPath))`: the index of
\* the first valid one, 0 if there is none.
FindValid(foundFiles) ==
    LET valid == { k \in 1..Len(foundFiles) : isValidTestFileName(foundFiles[k]) }
    IN  IF valid = {} THEN 0 ELSE CHOOSE k \in valid : \A j \in valid : k <= j

\* Mutant of FilterValid: the search hits are not filtered.
FilterValidKeepsAll(testFilesMatches) == testFilesMatches

\* `testFilesMatches.filter(file => isValidTestFileName(file.fsPath))`
FilterValid(testFilesMatches) == SelectSeq(testFilesMatches, isValidTestFileName)

\* The source files test context is asked for.
EditorTestInputs == { FsPath(Foo_ts), FsPath(Bar_ts) }

\* The test files of the workspace the searches look through: five with
\* names of test files, and atest_foo.ts, which both patterns for foo.ts match.
Bar_dot_test_ts == <<"b", "a", "r", ".", "t", "e", "s", "t", ".", "t", "s">>
Test_bar_ts == <<"t", "e", "s", "t", "_", "b", "a", "r", ".", "t", "s">>
Atest_foo_ts == <<"a">> \o Test_foo_ts
TestWorkspaceFiles ==
    { FsPath(n) : n \in { Foo_test_ts, Test_foo_ts, Bar_test_ts, Bar_dot_test_ts,
                          Test_bar_ts, Atest_foo_ts } }

\* The lists of up to n distinct elements of a set.
RECURSIVE DistinctLists(_, _)
DistinctLists(S, n) ==
    IF n = 0 THEN { <<>> }
    ELSE LET shorter == DistinctLists(S, n - 1)
             longest == { l \in shorter : Len(l) = n - 1 }
         IN  shorter \cup
             { Append(y[1], y[2]) :
                 y \in { z \in longest \X S : \A k \in 1..Len(z[1]) : z[1][k] # z[2] } }

\* What findFiles can resolve to for each pattern getEditorTestContext
\* searches with: up to maxResults = 5 of the files the pattern matches, in
\* any order.
SearchHits ==
    [ pattern \in { createVSCodeTestSearchPattern(f, a) :
                        f \in EditorTestInputs, a \in BOOLEAN } |->
        DistinctLists({ w \in TestWorkspaceFiles : GlobMatches(pattern, w) },
                      TestFilesMax) ]

\* What findVSCodeFiles returns to its caller for the search it was last
\* called for (the empty list when the search failed).
SearchResults(et) ==
    IF et.searches = <<>> THEN {}
    ELSE SearchHits[et.searches[Len(et.searches)].pattern]

\* Mutant of ReturnsCurrent: the early return is never taken.
ReturnsCurrentNever(currentTestFile) == FALSE

\* `if (currentTestFile.length)`
ReturnsCurrent(currentTestFile) == Len(currentTestFile) > 0

\* The call of findVSCodeFiles for a pattern, as logged.
SearchCall(pattern, isUnitTest) ==
    [pattern |-> pattern, excludePattern |-> ExcludePattern(isUnitTest),
     maxResults |-> TestFilesMax]

\* getEditorTestContext(fileName, isUnitTestRequest) is called: it calls
\* getCurrentTestFileContext, which calls findVSCodeFiles with the pattern for
\* test files of the same name and suspends.
EditorTestCall ==
    /\ editorTest.pc = "start"
    /\ editorTest' =
         [editorTest EXCEPT
            !.pc = "lookupSearch",
            !.searches = Append(@, SearchCall(
                createVSCodeTestSearchPattern(editorTest.fileName, FALSE),
                editorTest.isUnitTestRequest))]
    /\ UNCHANGED <<transcriptVars, scan, search, glob, dirList>>

\* getEditorTestContext with currentTestFile in hand: returns it if it has
\* elements, otherwise calls getCodebaseTestFilesContext, which calls
\* findVSCodeFiles with the pattern for all test files and suspends.
AfterCurrentTestFile(et, currentTestFile) ==
    IF ReturnsCurrent(currentTestFile)
    THEN [et EXCEPT !.pc = "returned", !.currentTestFile = currentTestFile,
                    !.result = currentTestFile]
    ELSE [et EXCEPT !.pc = "codebaseSearch", !.currentTestFile = currentTestFile,
                    !.searches = Append(@, SearchCall(
                        createVSCodeTestSearchPattern(et.fileName, TRUE),
                        et.isUnitTestRequest))]

\* getCurrentTestFileContext resumes after `await findVSCodeFiles(...)`: with
\* a valid test file it calls getFilePathContext and suspends on the read,
\* without one it returns [] to getEditorTestContext.
LookupSearchReturns(foundFiles) ==
    /\ editorTest.pc = "lookupSearch"
    /\ LET k == FindValid(foundFiles)
           et == [editorTest EXCEPT !.foundFiles = foundFiles]
       IN  editorTest' =
             IF k # 0
             THEN [et EXCEPT !.pc = "lookupRead", !.testFile = foundFiles[k],
                             !.readLog = Append(@, foundFiles[k])]
             ELSE AfterCurrentTestFile(et, <<>>)
    /\ UNCHANGED <<transcriptVars, scan, search, glob, dirList>>

\* getCurrentTestFileContext resumes after `await getFilePathContext(...)`
\* (the decoded text, '' when the read failed) and returns the pair.
LookupReadReturns(outcome) ==
    /\ editorTest.pc = "lookupRead"
    /\ editorTest' = AfterCurrentTestFile(editorTest,
            createFileContextResponseMessage(decodeVSCodeTextDoc(outcome),
                                             editorTest.testFile))
    /\ UNCHANGED <<transcriptVars, scan, search, glob, dirList>>

\* The head of the for loop of getContextMessageFromFiles for file k: the
\* list is exhausted and getEditorTestContext returns
\* [...codebaseTestFiles, ...currentTestFile], or getFilePathContext is called.
ForTestFile(et, k) ==
    IF k > Len(et.filteredTestFiles)
    THEN [et EXCEPT !.pc = "returned", !.k = k,
                    !.result = et.contextMessages \o et.currentTestFile]
    ELSE [et EXCEPT !.pc = "codebaseRead", !.k = k,
                    !.readLog = Append(@, et.filteredTestFiles[k])]

\* getCodebaseTestFilesContext resumes after `await findVSCodeFiles(...)`.
CodebaseSearchReturns(testFilesMatches) ==
    /\ editorTest.pc = "codebaseSearch"
    /\ editorTest' = ForTestFile([editorTest EXCEPT
                                    !.testFilesMatches = testFilesMatches,
                                    !.filteredTestFiles = FilterValid(testFilesMatches)], 1)
    /\ UNCHANGED <<transcriptVars, scan, search, glob, dirList>>

\* getContextMessageFromFiles resumes after `await getFilePathContext(...)`.
CodebaseReadReturns(outcome) ==
    /\ editorTest.pc = "codebaseRead"
    /\ LET file == editorTest.filteredTestFiles[editorTest.k]
           pair == createFileContextResponseMessage(decodeVSCodeTextDoc(outcome), file)
       IN  editorTest' = ForTestFile([editorTest EXCEPT !.contextMessages = Push(@, pair)],
                                     editorTest.k + 1)
    /\ UNCHANGED <<transcriptVars, scan, search, glob, dirList>>

\* A getEditorTestContext call about to be made, for foo.ts or bar.ts.
InitEditorTest ==
    /\ ConstructedInteraction(<<>>, NoRules)
    /\ scan = NoScan /\ search = NoSearch
    /\ glob = NoGlob /\ dirList = NoDirList
    /\ \E f \in EditorTestInputs, u \in BOOLEAN : editorTest = EditorTestArgs(f, u)

NextEditorTest ==
    \/ EditorTestCall
    \/ \E l \in SearchResults(editorTest) : LookupSearchReturns(l)
    \/ \E o \in ReadOutcomes : LookupReadReturns(o)
    \/ \E l \in SearchResults(editorTest) : CodebaseSearchReturns(l)
    \/ \E o \in ReadOutcomes : CodebaseReadReturns(o)

SpecEditorTest == InitEditorTest /\ [][NextEditorTest]_vars

\* A call made inside the try block of getEditorTestContext throws while the
\* function is under way: the catch clause returns [].
EditorTestCatch ==
    /\ editorTest.pc \in {"lookupSearch", "lookupRead", "codebaseSearch", "codebaseRead"}
    /\ editorTest' = [editorTest EXCEPT !.pc = "returned", !.caught = TRUE,
                                        !.result = <<>>]
    /\ UNCHANGED <<transcriptVars, scan, search, glob, dirList>>

\* getEditorTestContext with calls that may throw.
NextEditorTestCatch ==
    \/ NextEditorTest
    \/ EditorTestCatch

SpecEditorTestCatch == InitEditorTest /\ [][NextEditorTestCatch]_vars

(* ----------------------- helpers.ts: getFilesFromDir -------------------- *)

\* Names of directory entries: a source file, a test file, a dot file and a
\* name without extension.
Dot_env == <<".", "e", "n", "v">>
Sub == <<"s", "u", "b">>
EntryNames == { Foo_ts, Foo_test_ts, Dot_env, Sub }

\* The vscode.FileType of an entry: a file, a directory, or a symbolic link
\* to a directory (FileType.SymbolicLink | FileType.Directory).
FileTypes == { "File", "Directory", "SymbolicLink|Directory" }

\* What readDirectory can resolve to: up to MaxEntries entries [name, type]
\* with distinct names.
DirEntries ==
    { l \in DistinctLists(EntryNames \X FileTypes, MaxEntries) :
        \A j, k \in 1..Len(l) : j # k => l[j][1] # l[k][1] }

\* `fileType === vscode.FileType.Directory`
isDirectory(fileType) == fileType = "Directory"

\* Mutant of isHiddenFile: no name counts as hidden.
isHiddenFileNever(fileName) == FALSE

\* `fileName.startsWith('.')`
isHiddenFile(fileName) == StartsWith(fileName, <<".">>)

\* The callback of filesInDir.filter.
KeepsEntry(file, testFilesOnly) ==
    IF ~testFilesOnly
    THEN ~isDirectory(file[2]) /\ ~isHiddenFile(file[1])
    ELSE ~isDirectory(file[2]) /\ ~isHiddenFile(file[1]) /\ isValidTestFileName(file[1])

\* getFilesFromDir(dirUri, testFilesOnly) is called: it calls readDirectory
\* and suspends.
GetFilesCall ==
    /\ dirList.pc = "start"
    /\ dirList' = [dirList EXCEPT !.pc = "readDirectory"]
    /\ UNCHANGED <<transcriptVars, scan, search, editorTest, glob>>

\* `await vscode.workspace.fs.readDirectory(dirUri)` resolves: the filtered
\* listing is returned.
ReadDirectoryResolves(filesInDir) ==
    /\ dirList.pc = "readDirectory"
    /\ dirList' = [dirList EXCEPT
                     !.pc = "returned",
                     !.answer = [ok |-> TRUE, entries |-> filesInDir],
                     !.result = SelectSeq(filesInDir,
                                          LAMBDA file : KeepsEntry(file, dirList.testFilesOnly))]
    /\ UNCHANGED <<transcriptVars, scan, search, editorTest, glob>>

\* readDirectory rejects: the catch clause logs the error and returns [].
ReadDirectoryRejects ==
    /\ dirList.pc = "readDirectory"
    /\ dirList' = [dirList EXCEPT !.pc = "returned",
                                  !.answer = [ok |-> FALSE, entries |-> <<>>],
                                  !.result = <<>>]
    /\ UNCHANGED <<transcriptVars, scan, search, editorTest, glob>>

\* A getFilesFromDir call about to be made.
InitFiles ==
    /\ ConstructedInteraction(<<>>, NoRules)
    /\ scan = NoScan /\ search = NoSearch /\ editorTest = NoEditorTest /\ glob = NoGlob
    /\ \E t \in BOOLEAN : dirList = DirListArgs(t)

NextFiles ==
    \/ GetFilesCall
    \/ \E l \in DirEntries : ReadDirectoryResolves(l)
    \/ ReadDirectoryRejects

SpecFiles == InitFiles /\ [][NextFiles]_vars

(* ------------------------------ properties ----------------------------- *)

\* The file object of a fragment.
FileOf(m) == files[m.file]

\* A fragment references an ignored file: its URI is ignored, or it is an
\* embeddings result whose (repoName, fileName) is ignored.
ReferencesIgnored(m) ==
    /\ m.file # NoFile
    /\ \/ FileOf(m).uri \in rules.uris
       \/ /\ FileOf(m).source = "embeddings"
          /\ <<FileOf(m).repoName, FileOf(m).fileName>> \in rules.paths

IgnoredHuman(m) == m.speaker = "human" /\ ReferencesIgnored(m)

\* The elements of s at the positions in keep, in their order in s.
Restrict(s, keep) ==
    [j \in 1..Cardinality(keep) |->
        s[CHOOSE k \in keep : Cardinality({x \in keep : x <= k}) = j]]

\* The positions of s at which a left-to-right walk finds an ignored human
\* fragment: the fragment is ignored and the walk did not drop it already as
\* the element following the previous find.
WalkFinds(s) ==
    LET found[k \in 0..Len(s)] ==
            IF k = 0 THEN FALSE ELSE IgnoredHuman(s[k]) /\ ~found[k - 1]
    IN  { k \in 1..Len(s) : found[k] }

\* s without the fragments the walk finds and without the one element after each.
WalkResult(s) ==
    Restrict(s, { k \in 1..Len(s) : k \notin WalkFinds(s) /\ (k - 1) \notin WalkFinds(s) })

\* C1: getFullContext() returns the sequence it awaited without each ignored
\* human fragment that a left-to-right walk finds and without exactly the one
\* element following it; all other fragments are retained in their order.
C1_WalkDropsIgnoredAndNext ==
    ret.op = "getFullContext" => ret.val = WalkResult(ret.arg)

\* C1 witness: a call on the raw sequence of full length dropped a human
\* embeddings fragment (ignored by path, not by URI) with the element after it
\* and retained the rest.
C1_Witness ==
    /\ ret.op = "getFullContext"
    /\ ret.arg = raw
    /\ Len(raw) = MaxLen
    /\ Len(ret.val) = MaxLen - 2
    /\ \E k \in WalkFinds(raw) : FileOf(raw[k]).uri \notin rules.uris

\* The pairing invariant: every human fragment with file info is immediately
\* followed by an assistant fragment.
Paired(s) ==
    \A k \in 1..Len(s) :
        (s[k].speaker = "human" /\ s[k].file # NoFile)
            => (k < Len(s) /\ s[k + 1].speaker = "assistant")

\* s without every ignored human fragment and without the fragment paired with it.
PairsKept(s) ==
    Restrict(s, { k \in 1..Len(s) :
                    /\ ~IgnoredHuman(s[k])
                    /\ ~(k > 1 /\ IgnoredHuman(s[k - 1])) })

\* C2: on a sequence that satisfies the pairing invariant getFullContext()
\* returns exactly the pairs whose human fragment is not ignored, intact and
\* in order; one ignored pair and one allowed pair, in either order, give
\* exactly the allowed pair.
C2_PairedKeepsAllowedPairs ==
    (ret.op = "getFullContext" /\ Paired(ret.arg)) =>
        /\ ret.val = PairsKept(ret.arg)
        /\ \A i \in {1, 3} :
            ( /\ Len(ret.arg) = 4
              /\ IgnoredHuman(ret.arg[i])
              /\ ret.arg[4 - i].speaker = "human" /\ ret.arg[4 - i].file # NoFile
              /\ ~IgnoredHuman(ret.arg[4 - i]) )
            => ret.val = << ret.arg[4 - i], ret.arg[5 - i] >>

\* C2 witness: the raw sequence is an allowed pair followed by an ignored pair,
\* and getFullContext() returned the allowed pair.
C2_Witness ==
    /\ ret.op = "getFullContext"
    /\ ret.arg = raw
    /\ Paired(raw)
    /\ Len(raw) = 4
    /\ raw[1].speaker = "human" /\ raw[1].file # NoFile /\ ~IgnoredHuman(raw[1])
    /\ IgnoredHuman(raw[3])
    /\ ret.val = << raw[1], raw[2] >>

\* C3: no fragment returned by getFullContext() references an ignored file,
\* whatever its speaker.
C3_NoIgnoredFileReturned ==
    ret.op = "getFullContext" =>
        \A k \in 1..Len(ret.val) : ~ReferencesIgnored(ret.val[k])

\* C4: with a fixed rule set, once getFullContext() has filtered, the Interaction stays
\* Resolved, filtering the cached sequence again drops nothing, the slot keeps
\* the first filtered sequence, and every getFullContext() returns it.
C4_FilterIdempotentReadsConverge ==
    hist.filtered =>
        /\ ctxResolved /\ ~fullContext.orig
        /\ removeCodyIgnoredFiles(ValueOf(fullContext)) = ValueOf(fullContext)
        /\ ValueOf(fullContext) = hist.first
        /\ ret.op = "getFullContext" => ret.val = hist.first

\* C4 witness: a getFullContext() called after an earlier one had filtered
\* returned again the non-empty sequence from which fragments had been dropped.
C4_Witness ==
    /\ ret.op = "getFullContext"
    /\ ret.afterFilter
    /\ ret.val = hist.first
    /\ 0 < Len(ret.val) /\ Len(ret.val) < Len(raw)

\* C5 as claimed: the fullContext field of every toJSON() is the sequence the
\* constructor's promise resolved to.
C5_ToJSONIsRaw ==
    ret.op = "toJSON" => ret.val.fullContext = raw

\* C5 as amended: the fullContext field of toJSON() is the content of the slot
\* when toJSON() was called: the raw sequence if no read had filtered by then,
\* the filtered sequence otherwise.
C5_ToJSONIsSlotContent ==
    ret.op = "toJSON" =>
        ret.val.fullContext =
            IF ret.afterFilter THEN removeCodyIgnoredFiles(raw) ELSE raw

\* C5 witness: a toJSON() called after a read had filtered returned a sequence
\* shorter than the raw one.
C5_Witness ==
    /\ ret.op = "toJSON"
    /\ ret.afterFilter
    /\ Len(ret.val.fullContext) < Len(raw)

JSONFields ==
    {"humanMessage", "assistantMessage", "fullContext", "usedContextFiles",
     "usedPreciseContext", "timestamp"}

\* C6 as claimed: the record of toJSON() has the six fields and also the
\* deprecated `context` field with the same list as fullContext.
C6_ToJSONEmitsLegacyContext ==
    ret.op = "toJSON" =>
        /\ JSONFields \subseteq DOMAIN ret.val
        /\ "context" \in DOMAIN ret.val
        /\ ret.val.context = ret.val.fullContext

\* C6 as amended: the record of toJSON() has exactly the six fields
\* humanMessage, assistantMessage, fullContext, usedContextFiles,
\* usedPreciseContext and timestamp; it has no `context` field.
C6_ToJSONHasSixFields ==
    ret.op = "toJSON" => DOMAIN ret.val = JSONFields

\* C6 witness: a toJSON() returned with a non-empty context and used context
\* that had been set.
C6_Witness ==
    /\ ret.op = "toJSON"
    /\ ret.val.fullContext # <<>>
    /\ ret.val.usedContextFiles = <<"fileA">>
    /\ ret.val.timestamp = timestamp

\* C8: hasContext() returns true exactly when the filtered sequence, as
\* getFullContext() would return it in the same state, is non-empty; on an
\* empty context getFullContext() returns the empty sequence and hasContext()
\* returns false.
C8_HasContextIffFilteredNonEmpty ==
    /\ ret.op = "hasContext" =>
          (ret.val <=> CopyMessages(removeCodyIgnoredFiles(ValueOf(fullContext))) # <<>>)
    /\ (ret.op = "hasContext" /\ raw = <<>>) => ret.val = FALSE
    /\ (ret.op = "getFullContext" /\ raw = <<>>) => ret.val = <<>>

\* C8 witness: hasContext() returned false on a non-empty raw sequence, all of
\* which the filter dropped.
C8_Witness ==
    /\ ret.op = "hasContext"
    /\ ret.val = FALSE
    /\ Len(raw) = 2
    /\ ValueOf(fullContext) = <<>>

\* C9: after setUsedContext(files, precise) every toChat() returns two
\* messages, human then assistant, both with contextFiles = files and
\* preciseContext = precise, whatever other operations ran in between.
C9_ToChatCarriesUsedContext ==
    (ret.op = "toChat" /\ hist.setUsed) =>
        /\ Len(ret.val) = 2
        /\ ret.val[1].speaker = "human"
        /\ ret.val[2].speaker = "assistant"
        /\ \A k \in 1..2 :
            /\ ret.val[k].contextFiles = hist.usedArgs[1]
            /\ ret.val[k].preciseContext = hist.usedArgs[2]

\* C9 witness: toChat() returned after setUsedContext(<<fileA>>, <<p1>>) on an
\* Interaction whose context is empty (fileA is no part of it), with metadata
\* set, the assistant message replaced and the context read.
C9_Witness ==
    /\ ret.op = "toChat"
    /\ hist.setUsed
    /\ hist.usedArgs = << <<"fileA">>, <<"p1">> >>
    /\ raw = <<>>
    /\ hist.filtered
    /\ metadata = "m2"
    /\ assistantMessage.text = "reply"
    /\ ret.val[2].contextFiles = <<"fileA">>

\* The fragments the context slot holds (or will hold once the constructor's
\* promise resolves), each with the content of its file object.
CachedContext ==
    LET s == ValueOf(fullContext)
    IN  [k \in 1..Len(s) |->
            [speaker |-> s[k].speaker, text |-> s[k].text,
             file |-> IF s[k].file = NoFile THEN NoFileObj ELSE files[s[k].file]]]

\* C7: no write of a caller to the list getFullContext() returned, to one of
\* its fragments or to a fragment's file info changes the cached context.
C7_ReturnedCopyIsDefensive ==
    [][CallerMutates => CachedContext' = CachedContext]_vars

\* C10 (never early): no getFullContext(), hasContext(), toChatPromise() or
\* toJSON() returns before the constructor's promise has resolved, and
\* toChat() can return in every state.
NeverEarly ==
    /\ ret.op \in AsyncOps => ret.settled
    /\ ENABLED ToChat

\* C10: toChat() returns in every state, the four async operations never
\* return before the context promise has resolved, and each suspended call
\* returns eventually once it has.
C10_ToChatSyncOthersAwait ==
    /\ []NeverEarly
    /\ \A c \in CallIds : \A op \in AsyncOps :
          (calls[c].op = op /\ ctxResolved) ~> (calls[c].op = "idle" /\ ret.op = op)

\* C10 witness: toChat() returned while the context promise was unresolved and
\* a toJSON() and a getFullContext() call were suspended on it.
C10_Witness ==
    /\ ret.op = "toChat"
    /\ ~ctxResolved
    /\ \E c, d \in CallIds : calls[c].op = "toJSON" /\ calls[d].op = "getFullContext"

\* C11: after setMetadata(m), until the next setMetadata, the human message
\* and the assistant message both carry metadata m, also after
\* setAssistantMessage(a) has replaced the assistant message by a copy of an
\* `a` that carries other metadata or none.
C11_MetadataLastWriteWins ==
    hist.metaSet =>
        /\ humanMessage.metadata = hist.metaArg
        /\ assistantMessage.metadata = hist.metaArg

\* C11 witness: setMetadata("m1") was the last setMetadata, and after it
\* setAssistantMessage replaced the assistant message by an argument carrying
\* "m2".
C11_Witness ==
    /\ hist.metaSet /\ hist.metaArg = "m1"
    /\ ret.op = "setAssistantMessage"
    /\ ret.arg.metadata = "m2"
    /\ assistantMessage.text = "reply"
    /\ assistantMessage.metadata = "m1"

\* C12: every getFullContext() / hasContext() that was called while the
\* context promise was unresolved observes the raw sequence filtered once (the
\* positional walk of the raw sequence), whatever the order in which the
\* suspended calls continue, and from the first store on the slot holds that
\* same sequence.
C12_PendingReadsAgree ==
    /\ \A c \in CallIds : calls[c].pc = "awaitRemove" => calls[c].msgs = WalkResult(raw)
    /\ ret.op = "getFullContext" => ret.val = WalkResult(raw)
    /\ ret.op = "hasContext" => (ret.val <=> WalkResult(raw) # <<>>)
    /\ hist.filtered => ValueOf(fullContext) = WalkResult(raw)

\* C12 witness: a getFullContext() and a hasContext() were suspended on the
\* unresolved promise at the same time; the hasContext() has returned, the
\* getFullContext() has filtered and not yet returned, and the filter dropped
\* a fragment and kept one.
C12_Witness ==
    /\ ret.op = "hasContext" /\ ret.val = TRUE
    /\ \E c \in CallIds :
          /\ calls[c].op = "getFullContext"
          /\ calls[c].pc = "awaitRemove"
          /\ Len(calls[c].msgs) = 1
    /\ Len(raw) = 2

(* ------------------------ properties: directory scans ------------------ *)

Range(f) == { f[k] : k \in DOMAIN f }

\* The file names of the fragment pairs in contextMessages, in order.
EmittedNames ==
    [k \in 1..(Len(scan.contextMessages) \div 2) |->
        SplitPop(scan.contextMessages[2 * k - 1].file.fileName, "/")]

\* stat has answered for the file, and what it answered.
Statted(name) == \E k \in 1..Len(scan.statRes) : scan.statLog[k] = name
StatOf(name) == scan.statRes[CHOOSE k \in 1..Len(scan.statRes) : scan.statLog[k] = name]

\* The position of a name in the listing handed to the scan.
ListingPos(name) == CHOOSE k \in 1..Len(scan.filesInDir) : scan.filesInDir[k][1] = name

\* A size from 1 byte to 1,000,000 bytes.
WithinCeiling(name) ==
    /\ Statted(name) /\ StatOf(name).ok
    /\ 0 < StatOf(name).size /\ StatOf(name).size <= 1000000

\* C13: in both directory scans every file that is read and every file of a
\* produced fragment has a stat size from 1 to 1,000,000 bytes (a file of size
\* 0 or above 1,000,000 is neither read nor emitted), and a file of exactly
\* 1,000,000 bytes (other than the current file) is read.
C13_SizeCeiling ==
    /\ \A k \in 1..Len(scan.readLog) : WithinCeiling(scan.readLog[k])
    /\ \A k \in 1..Len(EmittedNames) : WithinCeiling(EmittedNames[k])
    /\ \A k \in 1..Len(scan.statRes) :
          ( /\ scan.statRes[k].ok /\ scan.statRes[k].size = 1000000
            /\ scan.statLog[k] # scan.currentFileName )
          => scan.statLog[k] \in Range(scan.readLog)

\* C13 witness: getDirContextMessages returned after stat answered 0 for one
\* file, 1,000,001 for another and 1,000,000 for a third, with the pair of the
\* third only.
C13_Witness ==
    /\ scan.fn = "getDirContextMessages" /\ scan.pc = "returned"
    /\ { scan.statRes[k].size : k \in 1..Len(scan.statRes) } = {0, 1000000, 1000001}
    /\ Len(EmittedNames) = 1
    /\ StatOf(EmittedNames[1]).size = 1000000

\* The names of the listing that start or end with the base name "foo" of the
\* current file foo.ts (test_foo.ts ends with its extension, not with "foo").
Companions == {Foo_ts, Foo_test_ts, Test_foo}

\* C14: when getCurrentDirFilteredContext has emitted the pair of an entry
\* whose name starts or ends with the base name of the current file, it has
\* returned with that pair as the last one, and that entry is the last one
\* stat was called on and the last one read; the scan returns before the end
\* of the listing and before maxFiles pairs only after such an entry.
C14_EarlyExitOnCompanion ==
    scan.fn = "getCurrentDirFilteredContext" =>
        /\ \A k \in 1..Len(EmittedNames) :
              EmittedNames[k] \in Companions =>
                /\ k = Len(EmittedNames)
                /\ scan.pc = "returned"
                /\ scan.statLog[Len(scan.statLog)] = EmittedNames[k]
                /\ scan.readLog[Len(scan.readLog)] = EmittedNames[k]
                /\ Len(scan.statLog) = ListingPos(EmittedNames[k])
        /\ ( /\ scan.pc = "returned"
              /\ Len(scan.statLog) < Len(scan.filesInDir)
              /\ Len(scan.contextMessages) < 2 * scan.maxFiles )
            => /\ EmittedNames # <<>>
               /\ EmittedNames[Len(EmittedNames)] \in Companions

\* C14 witness: the scan returned after the first entry, test_foo (a suffix
\* match), with one pair, two entries left in the listing and maxFiles 2.
C14_Witness ==
    /\ scan.fn = "getCurrentDirFilteredContext" /\ scan.pc = "returned"
    /\ Len(scan.filesInDir) = 3
    /\ scan.maxFiles = 2
    /\ EmittedNames = << Test_foo >>
    /\ scan.statLog = << Test_foo >>

\* C15: getCurrentDirFilteredContext never holds more than maxFiles fragment
\* pairs, for every maxFiles from 0 on, and has returned once it holds
\* maxFiles pairs.
C15_AtMostMaxFragments ==
    scan.fn = "getCurrentDirFilteredContext" =>
        /\ Len(scan.contextMessages) <= 2 * scan.maxFiles
        /\ (scan.pc # "start" /\ Len(scan.contextMessages) = 2 * scan.maxFiles)
              => scan.pc = "returned"

\* C16: the fragments of a directory scan are pairs, a human fragment with the
\* file followed by an assistant fragment, one pair per file whose read
\* completed, in the order of the listing.
C16_PairsInListingOrder ==
    /\ Len(scan.contextMessages) = 2 * Len(EmittedNames)
    /\ \A k \in 1..Len(EmittedNames) :
          /\ scan.contextMessages[2 * k - 1].speaker = "human"
          /\ scan.contextMessages[2 * k].speaker = "assistant"
          /\ \E j \in 1..Len(scan.filesInDir) : scan.filesInDir[j][1] = EmittedNames[k]
    /\ \A j, k \in 1..Len(EmittedNames) :
          j < k => ListingPos(EmittedNames[j]) < ListingPos(EmittedNames[k])
    /\ EmittedNames = SubSeq(scan.readLog, 1, Len(scan.readRes))

\* C16 witness: getDirContextMessages returned the pairs of the first and the
\* third entry of a listing of three.
C16_Witness ==
    /\ scan.fn = "getDirContextMessages" /\ scan.pc = "returned"
    /\ Len(scan.filesInDir) = 3
    /\ EmittedNames = << scan.filesInDir[1][1], scan.filesInDir[3][1] >>

\* C17: no directory scan ends with an error, and after a stat or read that
\* failed for an entry the scan goes on to the entries that follow it.
C17_FileErrorsNeverAbort ==
    /\ scan.pc # "threw"
    /\ \A k \in 1..Len(scan.statRes) :
          (~scan.statRes[k].ok /\ k < Len(scan.filesInDir)) => Len(scan.statLog) > k

\* C18: a file whose read failed has no fragment pair in contextMessages.
C18_FailedReadContributesNothing ==
    \A k \in 1..Len(scan.readRes) :
        ~scan.readRes[k] => scan.readLog[k] \notin Range(EmittedNames)

\* The entry of the listing that is the current file.
CurrentEntry == SplitPop(scan.currentFileName, "/")

\* C25: getCurrentDirFilteredContext neither reads the current file nor emits
\* a fragment for it, whether currentFileName is a bare name or a path, and
\* after the entry of the current file it goes on with the listing: it has
\* returned right after that entry only when the entry was the last one.
C25_CurrentFileNeverEmitted ==
    scan.fn = "getCurrentDirFilteredContext" =>
        /\ CurrentEntry \notin Range(EmittedNames)
        /\ CurrentEntry \notin Range(scan.readLog)
        /\ ( /\ scan.pc = "returned"
              /\ scan.statLog # <<>>
              /\ scan.statLog[Len(scan.statLog)] = CurrentEntry )
            => Len(scan.statLog) = Len(scan.filesInDir)

\* The same for a current file named by its bare name alone.
CurrentFileSkippedByBareName ==
    scan.currentFileName = Foo_ts => C25_CurrentFileNeverEmitted

(* ----------------------- properties: findVSCodeFiles ------------------- *)

\* The token is cancelled 20 seconds after the call, not before, whether or
\* not the search is still running.
CancelledAtDeadline ==
    /\ search.cancelled => search.elapsed >= 20000
    /\ search.elapsed > 20000 => search.cancelled

C26_ListingWithoutDirsAndDotFiles ==
    dirList.pc = "returned" =>
        IF ~dirList.answer.ok THEN dirList.result = <<>>
        ELSE LET entries == dirList.answer.entries
             IN  dirList.result =
                    Restrict(entries,
                             { k \in 1..Len(entries) :
                                 /\ entries[k][2] # "Directory"
                                 /\ Head(entries[k][1]) # "."
                                 /\ dirList.testFilesOnly =>
                                       isValidTestFileName(entries[k][1]) })

\* C26 witness: of a listing of a directory, a dot file and a source file,
\* getFilesFromDir returned the source file alone.
C26_Witness ==
    /\ dirList.pc = "returned"
    /\ ~dirList.testFilesOnly
    /\ dirList.answer.entries =
          << <<Sub, "Directory">>, <<Dot_env, "File">>, <<Foo_ts, "File">> >>
    /\ dirList.result = << <<Foo_ts, "File">> >>

(* --------------------- properties: getEditorTestContext ---------------- *)

\* The workspace files whose names follow a test-file convention.
ValidTestFiles == TestWorkspaceFiles \ { FsPath(Atest_foo_ts) }

\* The file names of the fragment pairs in a list of fragments, in order.
PairFiles(msgs) ==
    [k \in 1..(Len(msgs) \div 2) |-> WorkspaceRoot \o msgs[2 * k - 1].file.fileName]

\* The elements of a list that are valid test files, in order.
ValidOf(l) == Restrict(l, { k \in 1..Len(l) : l[k] \in ValidTestFiles })

DroppedAt(s) ==
    { k \in 1..Len(s) : k \in WalkFinds(s) \/ (k - 1) \in WalkFinds(s) }

\* C23: on every context sequence, paired or not, each fragment the filter
\* drops is an ignored human fragment or the assistant fragment immediately
\* after a dropped ignored human fragment; no other fragment is dropped.
C23_DropsOnlyIgnoredPairs ==
    ret.op = "getFullContext" =>
        /\ ret.val = Restrict(ret.arg, (1..Len(ret.arg)) \ DroppedAt(ret.arg))
        /\ \A k \in DroppedAt(ret.arg) :
              \/ IgnoredHuman(ret.arg[k])
              \/ /\ ret.arg[k].speaker = "assistant"
                 /\ (k - 1) \in DroppedAt(ret.arg)
                 /\ IgnoredHuman(ret.arg[k - 1])

\* Whether s can be had from t by removing elements.
RECURSIVE IsSubsequence(_, _)
IsSubsequence(s, t) ==
    IF s = <<>> THEN TRUE
    ELSE IF t = <<>> THEN FALSE
    ELSE IF Head(s) = Head(t) THEN IsSubsequence(Tail(s), Tail(t))
    ELSE IsSubsequence(s, Tail(t))

\* C24 as claimed: across reads and changes of the rule set the cached
\* context only ever shrinks.
C24_CachedContextOnlyShrinks ==
    [][IsSubsequence(ValueOf(fullContext'), ValueOf(fullContext))]_vars

\* The filter pass of call c runs in this step.
FilterPassOf(c) == calls[c].pc = "awaitContext" /\ calls'[c].pc = "awaitRemove"

\* C24 as amended: the cached context changes only in a filter pass, which
\* stores a subsequence of the sequence its read awaited; it shrinks whenever
\* that read awaited the promise that is in the slot, and grows only in the
\* pass of a read that awaited a promise another pass has replaced since; what
\* getFullContext() returns is a subsequence of what it awaited and the
\* fullContext of toJSON() is what it awaited.
C24_PassStoresSubsequenceOfAwaited ==
    [][ /\ fullContext' # fullContext =>
              \E c \in CallIds :
                  /\ FilterPassOf(c)
                  /\ IsSubsequence(ValueOf(fullContext'), ValueOf(calls[c].awaited))
                  /\ calls[c].awaited = fullContext =>
                        IsSubsequence(ValueOf(fullContext'), ValueOf(fullContext))
        /\ ~IsSubsequence(ValueOf(fullContext'), ValueOf(fullContext)) =>
              \E c \in CallIds : FilterPassOf(c) /\ calls[c].awaited # fullContext
        /\ ret'.op = "getFullContext" => IsSubsequence(ret'.val, ret'.arg)
        /\ ret'.op = "toJSON" => ret'.val.fullContext = ret'.arg ]_vars

\* C24 witness: a read dropped the fragment of an ignored file, the rules were
\* reloaded without that file, and a getFullContext() called after that
\* returned the sequence without the fragment all the same.
C24_Witness ==
    /\ ret.op = "getFullContext"
    /\ ret.afterFilter
    /\ rules.uris = {}
    /\ Len(ret.arg) < Len(raw)
    /\ ret.val = ret.arg
    /\ \E k \in 1..Len(raw) : raw[k].file # NoFile /\ FileOf(raw[k]).uri = "u1"

\* The attributes of the Interaction besides the cached context and the timestamp.
Attributes ==
    <<humanMessage, assistantMessage, metadata, usedContextFiles, usedPreciseContext>>

\* A step of getFullContext(), hasContext(), toChatPromise() or toJSON() (the
\* call, a continuation or the return), or a toChat().
ReaderStep ==
    \/ \E c \in CallIds : calls'[c].pc # calls[c].pc
    \/ ret' # ret /\ ret'.op = "toChat"

\* A setUsedContext, setMetadata or setAssistantMessage.
SetterStep ==
    \/ Attributes' # Attributes
    \/ ret' # ret /\ ret'.op \in {"setUsedContext", "setMetadata", "setAssistantMessage"}

\* C27: no operation changes the timestamp; the reads getFullContext(),
\* hasContext(), toChat(), toChatPromise() and toJSON() leave the human
\* message, the assistant message, the metadata and the used context
\* unchanged; setUsedContext, setMetadata and setAssistantMessage leave the
\* cached context unchanged.
C27_OperationFrames ==
    [][ /\ timestamp' = timestamp
        /\ ReaderStep => Attributes' = Attributes
        /\ SetterStep => (fullContext' = fullContext /\ ctxResolved' = ctxResolved) ]_vars

\* C27 witness: after setUsedContext, setMetadata, setAssistantMessage and a
\* filtering read, toJSON() has returned and the timestamp is the one of the
\* construction.
C27_Witness ==
    /\ ret.op = "toJSON"
    /\ hist.setUsed /\ hist.metaSet /\ hist.filtered
    /\ assistantMessage.text = "reply"
    /\ Len(ValueOf(fullContext)) < Len(raw)
    /\ timestamp = "t0" /\ ret.val.timestamp = "t0"

\* The files of a list, as a set.
FilesOf(l) == { l[k] : k \in 1..Len(l) }

EndsInTestNameOf(fsPath, path) ==
    LET E == extname(fsPath)
        N == basename(fsPath, E)
        name == SplitPop(path, "/")
    IN  \/ EndsWith(name, <<"t", "e", "s", "t", "_">> \o N \o E)
        \/ EndsWith(name, N \o <<"_", "t", "e", "s", "t">> \o E)
        \/ EndsWith(name, <<"t", "e", "s", "t", ".">> \o N \o E)
        \/ EndsWith(name, N \o <<".", "t", "e", "s", "t">> \o E)
        \/ EndsWith(name, N \o <<"T", "e", "s", "t">> \o E)

\* Whether the name of the file at a path has the extension of fsPath and
\* "test" somewhere before it.
HasTestAndExtensionOf(fsPath, path) ==
    LET E == extname(fsPath)
        name == SplitPop(path, "/")
    IN  /\ EndsWith(name, E)
        /\ \E k \in 1..(Len(name) - Len(E) - 3) :
              SubSeq(name, k, k + 3) = <<"t", "e", "s", "t">>

\* C22: the pattern built for a path with base name N and extension E
\* matches, at any depth, exactly the files whose names end in test_N, N_test,
\* test.N, N.test or NTest followed by E; built with allTestFiles it matches
\* exactly the files whose names contain "test" and have extension E.
C22_PatternMatchesTestNames ==
    glob.pc = "matched" =>
       glob.matches = IF glob.allTestFiles
                      THEN HasTestAndExtensionOf(glob.fsPath, glob.candidate)
                      ELSE EndsInTestNameOf(glob.fsPath, glob.candidate)

\* The same for the input bar.ts alone, bare or with directories.
PatternOfPlainName ==
    (glob.pc = "matched" /\ SplitPop(glob.fsPath, "/") = Bar_ts) =>
       glob.matches = IF glob.allTestFiles
                      THEN HasTestAndExtensionOf(glob.fsPath, glob.candidate)
                      ELSE EndsInTestNameOf(glob.fsPath, glob.candidate)

====
